---------------------------- MODULE Spec2Model ----------------------------
(* Model of src/preprocessing_func.py: the choropleth pipeline                *)
(*   create_choropleth_data = sjoin(inner, within) -> groupby.size -> merge   *)
(* and the category filter filter_datasets.                                   *)
(*                                                                            *)
(* A data frame is a sequence of rows (records); the row position is the      *)
(* frame's order.  Polygon geometries are axis-aligned rectangles and point   *)
(* geometries are integer coordinate pairs.  Strings are compared through     *)
(* Ord, the rank of a string in lexicographic order within its column.        *)
(* Column values are non-null strings (groupby would drop a null key).        *)
(* The inner merge keeps the order of the left frame, as pandas documents.    *)
EXTENDS Integers, Sequences, FiniteSets, TLC

VARIABLES points_gdf, polygons_gdf, points_in_polygons, counts_df,
          choropleth_gdf, filtered, pc

vars == <<points_gdf, polygons_gdf, points_in_polygons, counts_df,
          choropleth_gdf, filtered, pc>>

(* ------------------------------ bounds --------------------------------- *)
MaxPoints == 3
MaxPolygons == 2

(* ------------------------------ inputs --------------------------------- *)
CafeName == "Cafes, Snack Bars and Tea Rooms"
PubName == "Pubs, Bars and Inns"
Classnames == {CafeName, PubName}
ZoneKeys == {"Z1", "Z2"}

\* rank of a string in the lexicographic order of its column
Ord(s) ==
  CASE s = CafeName -> 1
    [] s = PubName -> 2
    [] s = "Z1" -> 1
    [] s = "Z2" -> 2

Rect(x0, y0, x1, y1) == [xmin |-> x0, ymin |-> y0, xmax |-> x1, ymax |-> y1]
G1 == Rect(0, 0, 10, 10)
G2 == Rect(5, 0, 60, 60)
ZoneGeoms == {G1, G2}

\* (1,1): inside G1 only; (7,7): inside G1 and G2; (50,50): inside G2 only;
\* (5,0): on an edge of G1 and a vertex of G2, inside neither
PointLocs == {<<1, 1>>, <<7, 7>>, <<50, 50>>, <<5, 0>>}

PointRows == [classname : Classnames, geometry : PointLocs]
PolygonRows == [lsoa11nmw : ZoneKeys, geometry : ZoneGeoms]

SeqsUpTo(S, n) == UNION {[1..k -> S] : k \in 0..n}

(* ------------------------- geometry predicate -------------------------- *)
\* DE-9IM "intersects" of a point and a polygon: interior or boundary
Intersects(pt, poly) ==
  /\ poly.xmin <= pt[1] /\ pt[1] <= poly.xmax
  /\ poly.ymin <= pt[2] /\ pt[2] <= poly.ymax

\* op='within': the point lies in the polygon's interior
Within(pt, poly) ==
  /\ poly.xmin < pt[1] /\ pt[1] < poly.xmax
  /\ poly.ymin < pt[2] /\ pt[2] < poly.ymax

(* ------------------------- step 1: spatial join ------------------------ *)
\* One left row against the right frame, right rows j..Len(polys).
\* pt is the position of the left row in points_gdf (the index that
\* reset_index(drop=True) discards; kept so that pairs can be told apart).
RECURSIVE MatchesOf(_, _, _, _)
MatchesOf(p, i, polys, j) ==
  IF j > Len(polys) THEN <<>>
  ELSE (IF Within(p.geometry, polys[j].geometry)
        THEN <<[pt |-> i, classname |-> p.classname, geometry |-> p.geometry,
                index_right |-> j, lsoa11nmw |-> polys[j].lsoa11nmw]>>
        ELSE <<>>)
       \o MatchesOf(p, i, polys, j + 1)

RECURSIVE SjoinFrom(_, _, _)
SjoinFrom(points, polys, i) ==
  IF i > Len(points) THEN <<>>
  ELSE MatchesOf(points[i], i, polys, 1) \o SjoinFrom(points, polys, i + 1)

\* variant: a join that keeps only the first matching polygon of each point
SjoinFirstMatch(points, polys) ==
  SelectSeq(SjoinFrom(points, polys, 1),
            LAMBDA r : ~\E j \in 1..(r.index_right - 1) :
                          Within(points[r.pt].geometry, polys[j].geometry))

\* gpd.sjoin(points, polys, how='inner', op='within').reset_index(drop=True)
Sjoin(points, polys) == SjoinFrom(points, polys, 1)

(* ----------------------- step 2: groupby(...).size() ------------------- *)
\* variant: grouping on the zone column alone
SameKeyZoneOnly(a, b) == a.lsoa11nmw = b.lsoa11nmw

SameKey(a, b) == a.classname = b.classname /\ a.lsoa11nmw = b.lsoa11nmw

KeyLess(a, b) ==
  \/ Ord(a.classname) < Ord(b.classname)
  \/ a.classname = b.classname /\ Ord(a.lsoa11nmw) < Ord(b.lsoa11nmw)

\* variant: every row opens a group of its own (no pooling of equal keys)
AddToGroupsNoPool(groups, r) ==
  groups \o <<[classname |-> r.classname, lsoa11nmw |-> r.lsoa11nmw, count |-> 1]>>

\* add one row to the groups seen so far (groups in first-appearance order)
RECURSIVE AddToGroups(_, _)
AddToGroups(groups, r) ==
  IF groups = <<>>
  THEN <<[classname |-> r.classname, lsoa11nmw |-> r.lsoa11nmw, count |-> 1]>>
  ELSE IF SameKey(Head(groups), r)
       THEN <<[Head(groups) EXCEPT !.count = @ + 1]>> \o Tail(groups)
       ELSE <<Head(groups)>> \o AddToGroups(Tail(groups), r)

RECURSIVE GroupsOf(_, _)
GroupsOf(rows, n) ==
  IF n = 0 THEN <<>> ELSE AddToGroups(GroupsOf(rows, n - 1), rows[n])

RECURSIVE InsertSorted(_, _)
InsertSorted(sorted, g) ==
  IF sorted = <<>> THEN <<g>>
  ELSE IF KeyLess(g, Head(sorted)) THEN <<g>> \o sorted
       ELSE <<Head(sorted)>> \o InsertSorted(Tail(sorted), g)

RECURSIVE SortGroups(_)
SortGroups(groups) ==
  IF groups = <<>> THEN <<>>
  ELSE InsertSorted(SortGroups(Tail(groups)), Head(groups))

\* variant: groupby(..., sort=False), groups in first-appearance order
GroupbySizeUnsorted(rows) == GroupsOf(rows, Len(rows))

\* groupby(['classname','lsoa11nmw']).size().reset_index().rename({0:'count'})
\* (groupby sorts the group keys: sort=True is the default)
GroupbySize(rows) == SortGroups(GroupsOf(rows, Len(rows)))

(* -------------------- step 3: merge onto the polygons ------------------ *)
\* variant: a cross join, every aggregate row attached to every polygon
MergeRowCross(z, counts, k) ==
  [n \in 1..Len(counts) |->
     [lsoa11nmw |-> z.lsoa11nmw, geometry |-> z.geometry,
      classname |-> counts[n].classname, count |-> counts[n].count]]

\* variant: a one-to-one merge, only the first aggregate row of a polygon kept
MergeRowFirst(z, counts, k) ==
  LET hits == SelectSeq(counts, LAMBDA g : g.lsoa11nmw = z.lsoa11nmw)
  IN  IF hits = <<>> THEN <<>>
      ELSE <<[lsoa11nmw |-> z.lsoa11nmw, geometry |-> z.geometry,
              classname |-> hits[1].classname, count |-> hits[1].count]>>

RECURSIVE MergeRow(_, _, _)
MergeRow(z, counts, k) ==
  IF k > Len(counts) THEN <<>>
  ELSE (IF counts[k].lsoa11nmw = z.lsoa11nmw
        THEN <<[lsoa11nmw |-> z.lsoa11nmw, geometry |-> z.geometry,
                classname |-> counts[k].classname, count |-> counts[k].count]>>
        ELSE <<>>)
       \o MergeRow(z, counts, k + 1)

RECURSIVE MergeFrom(_, _, _)
MergeFrom(polys, counts, j) ==
  IF j > Len(polys) THEN <<>>
  ELSE MergeRow(polys[j], counts, 1) \o MergeFrom(polys, counts, j + 1)

\* variant: pd.merge(counts_df, polygons_gdf, ...), rows in aggregate order
RECURSIVE MergeCountsMajorFrom(_, _, _)
MergeCountsMajorFrom(polys, counts, k) ==
  IF k > Len(counts) THEN <<>>
  ELSE [n \in 1..Len(SelectSeq(polys, LAMBDA z : z.lsoa11nmw = counts[k].lsoa11nmw)) |->
          LET z == SelectSeq(polys, LAMBDA y : y.lsoa11nmw = counts[k].lsoa11nmw)[n]
          IN  [lsoa11nmw |-> z.lsoa11nmw, geometry |-> z.geometry,
               classname |-> counts[k].classname, count |-> counts[k].count]]
       \o MergeCountsMajorFrom(polys, counts, k + 1)

MergeCountsMajor(polys, counts) == MergeCountsMajorFrom(polys, counts, 1)

\* variant: how='left', a polygon without aggregate rows is kept with NaN
RECURSIVE MergeLeftFrom(_, _, _)
MergeLeftFrom(polys, counts, j) ==
  IF j > Len(polys) THEN <<>>
  ELSE (IF MergeRow(polys[j], counts, 1) = <<>>
        THEN <<[lsoa11nmw |-> polys[j].lsoa11nmw, geometry |-> polys[j].geometry,
                classname |-> "NaN", count |-> 0]>>
        ELSE MergeRow(polys[j], counts, 1))
       \o MergeLeftFrom(polys, counts, j + 1)

MergeLeft(polys, counts) == MergeLeftFrom(polys, counts, 1)

\* pd.merge(polygons_gdf, counts_df, how='inner', on='lsoa11nmw'):
\* the order of the left keys is preserved
Merge(polys, counts) == MergeFrom(polys, counts, 1)

(* --------------------------- filter_datasets --------------------------- *)
\* df[df['classname'] == c]: the rows with that classname, in frame order,
\* each with the index label (position) it had in df
RECURSIVE FilterFrom(_, _, _)
FilterFrom(df, c, i) ==
  IF i > Len(df) THEN <<>>
  ELSE (IF df[i].classname = c THEN <<[index |-> i, row |-> df[i]]>> ELSE <<>>)
       \o FilterFrom(df, c, i + 1)

\* variant: the comparison inverted (!= instead of ==)
FilterOtherClass(df, c) ==
  SelectSeq([i \in 1..Len(df) |-> [index |-> i, row |-> df[i]]],
            LAMBDA e : e.row.classname # c)

FilterClass(df, c) == FilterFrom(df, c, 1)

(* ------------------------------- actions ------------------------------- *)
Init ==
  /\ points_gdf \in SeqsUpTo(PointRows, MaxPoints)
  /\ polygons_gdf \in SeqsUpTo(PolygonRows, MaxPolygons)
  /\ points_in_polygons = <<>>
  /\ counts_df = <<>>
  /\ choropleth_gdf = <<>>
  /\ filtered = [cafe_gdf |-> <<>>, bar_gdf |-> <<>>,
                 cafe_choropleth_gdf |-> <<>>, bar_choropleth_gdf |-> <<>>]
  /\ pc = "start"

create_choropleth_data ==
  /\ pc = "start"
  /\ points_in_polygons' = Sjoin(points_gdf, polygons_gdf)
  /\ counts_df' = GroupbySize(points_in_polygons')
  /\ choropleth_gdf' = Merge(polygons_gdf, counts_df')
  /\ pc' = "choropleth"
  /\ UNCHANGED <<points_gdf, polygons_gdf, filtered>>

filter_datasets ==
  /\ pc = "choropleth"
  /\ filtered' = [cafe_gdf |-> FilterClass(points_gdf, CafeName),
                  bar_gdf |-> FilterClass(points_gdf, PubName),
                  cafe_choropleth_gdf |-> FilterClass(choropleth_gdf, CafeName),
                  bar_choropleth_gdf |-> FilterClass(choropleth_gdf, PubName)]
  /\ pc' = "filtered"
  /\ UNCHANGED <<points_gdf, polygons_gdf, points_in_polygons, counts_df,
                 choropleth_gdf>>

Next == create_choropleth_data \/ filter_datasets

Spec == Init /\ [][Next]_vars

\* the pipeline alone, one call of create_choropleth_data per input
SpecChoropleth == Init /\ [][create_choropleth_data]_vars

\* create_choropleth_data has returned and nothing has run since
Created == pc = "choropleth"

TypeOK == pc \in {"start", "choropleth", "filtered"}

(* ---------------------- vocabulary of the properties ------------------- *)
RECURSIVE SumCounts(_, _)
SumCounts(df, n) == IF n = 0 THEN 0 ELSE df[n].count + SumCounts(df, n - 1)

UniqueKeys ==
  \A i, j \in DOMAIN polygons_gdf :
     i # j => polygons_gdf[i].lsoa11nmw # polygons_gdf[j].lsoa11nmw

\* the join pairs (positions in points_in_polygons) of a point / of a key
PairsOfPoint(i) == {n \in DOMAIN points_in_polygons : points_in_polygons[n].pt = i}

PairsWithKey(c, k) ==
  {n \in DOMAIN points_in_polygons :
     /\ points_gdf[points_in_polygons[n].pt].classname = c
     /\ polygons_gdf[points_in_polygons[n].index_right].lsoa11nmw = k}

HasPair(i, j) ==
  \E n \in DOMAIN points_in_polygons :
     points_in_polygons[n].pt = i /\ points_in_polygons[n].index_right = j

\* point i lies on an edge or a vertex of polygon j / strictly inside it
Closed(i, j) == Intersects(points_gdf[i].geometry, polygons_gdf[j].geometry)

Edge(i, j) ==
  /\ Closed(i, j)
  /\ \/ points_gdf[i].geometry[1] \in {polygons_gdf[j].geometry.xmin,
                                       polygons_gdf[j].geometry.xmax}
     \/ points_gdf[i].geometry[2] \in {polygons_gdf[j].geometry.ymin,
                                       polygons_gdf[j].geometry.ymax}

Vertex(i, j) ==
  /\ points_gdf[i].geometry[1] \in {polygons_gdf[j].geometry.xmin,
                                    polygons_gdf[j].geometry.xmax}
  /\ points_gdf[i].geometry[2] \in {polygons_gdf[j].geometry.ymin,
                                    polygons_gdf[j].geometry.ymax}

Inside(i, j) == Closed(i, j) /\ ~Edge(i, j)

\* some polygon carrying key k has a point of class c strictly inside it
KeyHasPoint(k, c) ==
  \E i \in DOMAIN points_gdf, j \in DOMAIN polygons_gdf :
     /\ points_gdf[i].classname = c
     /\ polygons_gdf[j].lsoa11nmw = k
     /\ Inside(i, j)

RowsWith(k, c) ==
  {r \in DOMAIN choropleth_gdf :
     choropleth_gdf[r].lsoa11nmw = k /\ choropleth_gdf[r].classname = c}

PolygonsWith(k) == {j \in DOMAIN polygons_gdf : polygons_gdf[j].lsoa11nmw = k}

\* polygon j (its key and geometry) occurs in an output row
Appears(j) ==
  \E r \in DOMAIN choropleth_gdf :
     /\ choropleth_gdf[r].lsoa11nmw = polygons_gdf[j].lsoa11nmw
     /\ choropleth_gdf[r].geometry = polygons_gdf[j].geometry

OutKey(r) == <<r.classname, r.lsoa11nmw>>

\* the scenario of the specification, coordinates scaled to the model's grid
ScenarioPoints ==
  <<[classname |-> CafeName, geometry |-> <<1, 1>>],
    [classname |-> PubName, geometry |-> <<1, 1>>],
    [classname |-> CafeName, geometry |-> <<50, 50>>]>>

ScenarioPolygons ==
  <<[lsoa11nmw |-> "Z1", geometry |-> G1], [lsoa11nmw |-> "Z2", geometry |-> G2]>>

InScenario ==
  Created /\ points_gdf = ScenarioPoints /\ polygons_gdf = ScenarioPolygons

(* ------------------------------- C1 ------------------------------------ *)
\* C1: every output row (classname, lsoa11nmw, count) has count equal to the
\* number of join pairs whose point has that classname and whose polygon has
\* that lsoa11nmw, and count >= 1.
C1_CountIsNumberOfPairs ==
  Created =>
    \A r \in DOMAIN choropleth_gdf :
       /\ choropleth_gdf[r].count =
            Cardinality(PairsWithKey(choropleth_gdf[r].classname,
                                     choropleth_gdf[r].lsoa11nmw))
       /\ choropleth_gdf[r].count >= 1

C1_Witness ==
  /\ Created
  /\ Len(choropleth_gdf) >= 2
  /\ \E r, s \in DOMAIN choropleth_gdf :
        /\ choropleth_gdf[r].count = 2
        /\ choropleth_gdf[s].count = 1
        /\ choropleth_gdf[r].lsoa11nmw = choropleth_gdf[s].lsoa11nmw

(* ------------------------------- C2 ------------------------------------ *)
\* C2: the number of join pairs of a point equals the number of input
\* polygons that contain it (the join's containment predicate): zero for a
\* point outside all polygons, k for a point inside k overlapping polygons.
C2_PairsPerPoint ==
  Created =>
    \A i \in DOMAIN points_gdf :
       Cardinality(PairsOfPoint(i)) =
         Cardinality({j \in DOMAIN polygons_gdf :
                        Within(points_gdf[i].geometry, polygons_gdf[j].geometry)})

C2_Witness ==
  /\ Created
  /\ \E i, h \in DOMAIN points_gdf :
        /\ Cardinality(PairsOfPoint(i)) = 2
        /\ \A j \in DOMAIN polygons_gdf : ~Closed(h, j)
        /\ PairsOfPoint(h) = {}

(* ------------------------------- C3 ------------------------------------ *)
\* C3 as stated: a point exactly on a polygon's boundary is joined to that
\* polygon.
C3_BoundaryInclusive ==
  Created =>
    \A i \in DOMAIN points_gdf, j \in DOMAIN polygons_gdf :
       Edge(i, j) => HasPair(i, j)

\* C3 amended: containment is boundary-exclusive.  A point is joined to a
\* polygon exactly when it lies strictly inside it; a point on an edge or a
\* vertex of a polygon is not joined to that polygon and adds nothing to the
\* polygon's counts.
C3_BoundaryExclusive ==
  Created =>
    \A i \in DOMAIN points_gdf, j \in DOMAIN polygons_gdf :
       /\ Edge(i, j) => ~HasPair(i, j)
       /\ Inside(i, j) => HasPair(i, j)
       /\ (\A h \in DOMAIN points_gdf, g \in DOMAIN polygons_gdf :
             (polygons_gdf[g].lsoa11nmw = polygons_gdf[j].lsoa11nmw) => ~Inside(h, g))
          => ~Appears(j)

C3_Witness ==
  /\ Created
  /\ \E i, h \in DOMAIN points_gdf, j, g \in DOMAIN polygons_gdf :
        /\ Edge(i, j) /\ ~Vertex(i, j) /\ ~HasPair(i, j)
        /\ Vertex(i, g) /\ ~HasPair(i, g) /\ ~Appears(g)
        /\ Inside(h, j) /\ HasPair(h, j) /\ Appears(j)

(* ------------------------------- C4 ------------------------------------ *)
\* C4 as stated: the output is ordered by count descending, ties broken by
\* (category, zone_key) ascending; in the scenario the order is
\* (Cafe,Z1), (Cafe,Z2), (Pub,Z1).
C4_CountDescending ==
  Created =>
    /\ \A r, s \in DOMAIN choropleth_gdf :
          r < s =>
            \/ choropleth_gdf[r].count > choropleth_gdf[s].count
            \/ /\ choropleth_gdf[r].count = choropleth_gdf[s].count
               /\ ~KeyLess(choropleth_gdf[s], choropleth_gdf[r])
    /\ InScenario =>
         [r \in DOMAIN choropleth_gdf |-> OutKey(choropleth_gdf[r])] =
           <<<<CafeName, "Z1">>, <<CafeName, "Z2">>, <<PubName, "Z1">>>>

\* position of the polygon a row belongs to, when keys are unique
PolygonOf(r) == CHOOSE j \in DOMAIN polygons_gdf : polygons_gdf[j].lsoa11nmw = r.lsoa11nmw

\* C4 amended: with unique zone keys the output is ordered by the position of
\* the row's polygon in the polygon input and, within one polygon, by
\* category ascending; count plays no part.  In the scenario the order is
\* (Cafe,Z1), (Pub,Z1), (Cafe,Z2).
C4_PolygonOrderThenCategory ==
  Created =>
    /\ UniqueKeys =>
         \A r, s \in DOMAIN choropleth_gdf :
            r < s =>
              \/ PolygonOf(choropleth_gdf[r]) < PolygonOf(choropleth_gdf[s])
              \/ /\ PolygonOf(choropleth_gdf[r]) = PolygonOf(choropleth_gdf[s])
                 /\ Ord(choropleth_gdf[r].classname) < Ord(choropleth_gdf[s].classname)
    /\ InScenario =>
         [r \in DOMAIN choropleth_gdf |-> OutKey(choropleth_gdf[r])] =
           <<<<CafeName, "Z1">>, <<PubName, "Z1">>, <<CafeName, "Z2">>>>

C4_Witness ==
  /\ InScenario
  /\ Len(choropleth_gdf) = 3
  /\ \A r \in DOMAIN choropleth_gdf : choropleth_gdf[r].count = 1

(* ------------------------------- C5 ------------------------------------ *)
Permuted(q) == [i \in DOMAIN points_gdf |-> points_gdf[q[i]]]

\* C5: for a fixed polygon sequence the output (rows and their order) is the
\* same for every permutation of the input points.
C5_PointOrderIrrelevant ==
  pc = "choropleth" =>
    \A q \in Permutations(DOMAIN points_gdf) :
       Merge(polygons_gdf, GroupbySize(Sjoin(Permuted(q), polygons_gdf)))
         = choropleth_gdf

C5_Witness ==
  /\ pc = "choropleth"
  /\ Len(choropleth_gdf) >= 3
  /\ \E q \in Permutations(DOMAIN points_gdf) :
        /\ Permuted(q) # points_gdf
        /\ GroupsOf(Sjoin(Permuted(q), polygons_gdf), Len(points_in_polygons))
             # GroupsOf(points_in_polygons, Len(points_in_polygons))

(* ------------------------------- C6 ------------------------------------ *)
\* C6 as stated: every output zone key is the key of an input polygon with
\* count >= 1, and a polygon that contains no input point never appears in
\* the output.
C6_EmptyPolygonAbsent ==
  Created =>
    /\ \A r \in DOMAIN choropleth_gdf :
          /\ PolygonsWith(choropleth_gdf[r].lsoa11nmw) # {}
          /\ choropleth_gdf[r].count >= 1
    /\ \A j \in DOMAIN polygons_gdf :
          (\A i \in DOMAIN points_gdf : ~Inside(i, j)) => ~Appears(j)

\* C6 amended: every output zone key is the key of an input polygon and its
\* rows have count >= 1; a polygon appears in the output exactly when some
\* polygon carrying its zone key contains an input point.  So a polygon that
\* contains no input point never appears when no other polygon shares its key
\* (in particular when zone keys are unique).
C6_AppearsIffKeyHasPoint ==
  Created =>
    /\ \A r \in DOMAIN choropleth_gdf :
          /\ PolygonsWith(choropleth_gdf[r].lsoa11nmw) # {}
          /\ choropleth_gdf[r].count >= 1
    /\ \A j \in DOMAIN polygons_gdf :
          Appears(j) <=>
            \E c \in Classnames : KeyHasPoint(polygons_gdf[j].lsoa11nmw, c)

C6_Witness ==
  /\ Created
  /\ UniqueKeys
  /\ Len(polygons_gdf) = 2
  /\ Appears(1)
  /\ ~Appears(2)
  /\ \E i \in DOMAIN points_gdf : Edge(i, 2)

(* ------------------------------- C7 ------------------------------------ *)
\* C7 as stated: exactly one output row for each (zone_key, category) pair
\* that has at least one contained point, and no row for any other pair.
C7_OneRowPerPair ==
  Created =>
    \A k \in ZoneKeys, c \in Classnames :
       Cardinality(RowsWith(k, c)) = IF KeyHasPoint(k, c) THEN 1 ELSE 0

\* C7 amended: a (zone_key, category) pair with at least one contained point
\* has one output row per polygon carrying that zone key (exactly one when
\* zone keys are unique), and a pair with no contained point has no row.
C7_OneRowPerPolygonOfPair ==
  Created =>
    \A k \in ZoneKeys, c \in Classnames :
       Cardinality(RowsWith(k, c)) =
         IF KeyHasPoint(k, c) THEN Cardinality(PolygonsWith(k)) ELSE 0

C7_Witness ==
  /\ Created
  /\ UniqueKeys
  /\ Len(polygons_gdf) = 2
  /\ \E k \in ZoneKeys :
        /\ Cardinality(RowsWith(k, CafeName)) = 1
        /\ RowsWith(k, PubName) = {}
        /\ Cardinality(PairsWithKey(CafeName, k)) = 2

(* ------------------------------- C8 ------------------------------------ *)
NoPointInside ==
  \A i \in DOMAIN points_gdf, j \in DOMAIN polygons_gdf : ~Inside(i, j)

\* C8: with an empty point set, or with no point inside any polygon, the
\* call completes with an empty join, an empty aggregate and an empty result.
C8_EmptyPropagates ==
  /\ (pc = "start" /\ NoPointInside) => ENABLED create_choropleth_data
  /\ (Created /\ NoPointInside) =>
        /\ points_in_polygons = <<>>
        /\ counts_df = <<>>
        /\ choropleth_gdf = <<>>

C8_Witness ==
  /\ Created
  /\ points_gdf # <<>>
  /\ polygons_gdf # <<>>
  /\ NoPointInside
  /\ choropleth_gdf = <<>>

(* ------------------------------- C9 ------------------------------------ *)
\* sub is exactly the rows of df with classname c, in df's order
ExactSubset(sub, df, c) ==
  /\ {sub[n].index : n \in DOMAIN sub} = {i \in DOMAIN df : df[i].classname = c}
  /\ \A n \in DOMAIN sub : sub[n].row = df[sub[n].index]
  /\ \A m, n \in DOMAIN sub : m < n => sub[m].index < sub[n].index

Disjoint(a, b) ==
  {a[n].index : n \in DOMAIN a} \cap {b[n].index : n \in DOMAIN b} = {}

C9_SubsetsExact ==
  pc = "filtered" =>
    /\ ExactSubset(filtered.cafe_gdf, points_gdf, CafeName)
    /\ ExactSubset(filtered.bar_gdf, points_gdf, PubName)
    /\ ExactSubset(filtered.cafe_choropleth_gdf, choropleth_gdf, CafeName)
    /\ ExactSubset(filtered.bar_choropleth_gdf, choropleth_gdf, PubName)
    /\ Disjoint(filtered.cafe_gdf, filtered.bar_gdf)
    /\ Disjoint(filtered.cafe_choropleth_gdf, filtered.bar_choropleth_gdf)

\* C9: filter_datasets returns for each of its two categories exactly the
\* input points and exactly the input choropleth rows of that category, in
\* input order and leaving both inputs unmodified; a category without rows
\* gives empty subsets; the subsets of the two categories are disjoint.
C9_FilterDatasets ==
  /\ []C9_SubsetsExact
  /\ [][pc' = "filtered" =>
          (points_gdf' = points_gdf /\ choropleth_gdf' = choropleth_gdf)]_vars

C9_Witness ==
  /\ pc = "filtered"
  /\ Len(filtered.cafe_gdf) = 2
  /\ filtered.bar_gdf = <<>>
  /\ Len(points_gdf) = 2
  /\ Len(filtered.cafe_choropleth_gdf) = 2
  /\ filtered.bar_choropleth_gdf = <<>>

(* ------------------------------- C10 ----------------------------------- *)
\* a join pair whose zone key is carried by more than one polygon
SharedKeyJoined ==
  \E n \in DOMAIN points_in_polygons :
     Cardinality(PolygonsWith(points_in_polygons[n].lsoa11nmw)) > 1

\* C10: with unique zone keys the counts of the output rows sum to the number
\* of join pairs; when polygons share a zone key that has join pairs, the
\* pooled group's row is repeated per polygon and the sum exceeds the number
\* of join pairs.
C10_Conservation ==
  Created =>
    /\ UniqueKeys =>
         SumCounts(choropleth_gdf, Len(choropleth_gdf)) = Len(points_in_polygons)
    /\ SharedKeyJoined =>
         SumCounts(choropleth_gdf, Len(choropleth_gdf)) > Len(points_in_polygons)
    /\ ~SharedKeyJoined =>
         SumCounts(choropleth_gdf, Len(choropleth_gdf)) = Len(points_in_polygons)

C10_Witness ==
  /\ Created
  /\ ~UniqueKeys
  /\ Len(points_in_polygons) = 3
  /\ SumCounts(choropleth_gdf, Len(choropleth_gdf)) = 6
  /\ Len(choropleth_gdf) = 2
=============================================================================
